---- MODULE Spec2Model ----
(***************************************************************************)
(* go-get-proxy (proxy.go): the fetch coordinator getPackage, the          *)
(* freshness check isNewEnough, the VCS-root climb and the stamping walk.  *)
(*                                                                         *)
(* A directory is the sequence of the names on its absolute path: the      *)
(* filesystem root "/" is << >>, "/gopath/src/a" is <<"gopath","src","a">>.*)
(* A package key is the sequence of its slash-separated segments.          *)
(* Time is counted in whole minutes.                                       *)
(***************************************************************************)
EXTENDS Integers, Sequences, FiniteSets, TLC

\* ---------------------------------------------------------------- bounds
NumThreads == 2      \* concurrent request goroutines
MaxTime == 1         \* the clock runs from 0 to MaxTime
MaxCalls == 2        \* getPackage calls made in one run
MaxPathLen == 5      \* characters in a requested URL path

\* ------------------------------------------------------------- constants
Minute == 1
newEnough == 1 * Minute
goPathSrc == <<"gopath", "src">>
VcsDirs == {".svn", ".hg", ".git", ".bzr"}
ModernVcs == {".hg", ".git", ".bzr"}

Threads == 1 .. NumThreads
NoFile == -1         \* os.Stat of the marker file (modtimeFile) fails
EmptyPath == <<"">>  \* the empty string returned as pkgPath with an error

\* ------------------------------------------------------------ the tree
\* The package keys requested: "a" and "a/b" live in one git checkout rooted
\* at /gopath/src/a; "n" is a package go get accepts without creating a
\* directory for it (a standard-library import path).
KeyA == <<"a">>
KeyAB == <<"a", "b">>
KeyN == <<"n">>
Keys == {KeyA, KeyAB, KeyN}

Prefixes(d) == {SubSeq(d, 1, n) : n \in 0 .. Len(d)}

\* filepath.Join(dir, ".."): the parent, and "/" for "/".
Parent(dir) == IF dir = << >> THEN << >> ELSE SubSeq(dir, 1, Len(dir) - 1)

\* filepath.Join(dir, names...): the names are appended and the path is
\* cleaned: an empty name and "." are dropped, ".." goes to the parent.
RECURSIVE JoinClean(_, _)
JoinClean(dir, names) ==
    IF names = << >> THEN dir
    ELSE JoinClean(IF Head(names) \in {"", "."} THEN dir
                   ELSE IF Head(names) = ".." THEN Parent(dir)
                   ELSE Append(dir, Head(names)),
                   Tail(names))

\* filepath.Join(goPathSrc, filepath.FromSlash(pkg))
pkgPathOf(pkg) == JoinClean(goPathSrc, pkg)

\* The ordinary directories of the model and, in each, the metadata
\* directories a version-control system may keep.
Tree == UNION {Prefixes(pkgPathOf(k)) : k \in Keys}
GitObjects == pkgPathOf(KeyA) \o <<".git", "objects">>
AllDirs == Tree \cup {Append(d, v) : d \in Tree, v \in VcsDirs} \cup {GitObjects}

\* What a successful "go get -u -d pkg" leaves on disk.
CheckoutA == {pkgPathOf(KeyA), pkgPathOf(KeyA) \o <<".git">>, GitObjects, pkgPathOf(KeyAB)}
Checkout(pkg) == IF pkg \in {KeyA, KeyAB} THEN CheckoutA ELSE {}

BaseDirs == Prefixes(goPathSrc)

\* ------------------------------------------------------------ path helpers
\* filepath.Base(path)
Base(dir) == IF dir = << >> THEN "/" ELSE dir[Len(dir)]

\* len(dir) of the cleaned path string: "/" has length 1, "/x/yz" length 5.
RECURSIVE PathLen(_)
PathLen(dir) ==
    IF dir = << >> THEN 1
    ELSE IF Len(dir) = 1 THEN 1 + Len(dir[1])
    ELSE PathLen(Parent(dir)) + 1 + Len(Base(dir))

\* Lexical order of the directory names (filepath.Walk visits sorted names).
NameOrder == <<".bzr", ".git", ".hg", ".svn", "a", "b", "gopath", "n", "objects", "src">>
Rank(name) == CHOOSE i \in 1 .. Len(NameOrder) : NameOrder[i] = name

VARIABLES
    fs,         \* the directories that exist
    mtime,      \* per directory: modification time of its marker file, or NoFile
    now,        \* time.Now()
    pendingMu,  \* 0 when unlocked, else the thread holding the mutex
    pending,    \* map from package key to channel
    chans,      \* per channel made: number of values in its buffer (capacity 1)
    pc,         \* per thread: where it is in getPackage
    pkg,        \* per thread: getPackage's argument
    c,          \* per thread: the channel it looked up
    root,       \* per thread: the located root
    todo,       \* per thread: directories filepath.Walk has still to visit
    cur,        \* per thread: the directory whose marker touchFile is rewriting
    ret,        \* per thread: what the last getPackage call returned
    runs,       \* per thread: external commands run by the current (last) call
    t0,         \* per thread: the clock when the call's command ended well
    statDirs,   \* per thread: the directories whose marker the call's isNewEnough stat'ed
    calls,      \* getPackage calls made so far
    upath,      \* the handler's request: r.URL.Path, a sequence of characters
    hpc,        \* where the handler is: "none", "recv", "called", "done", "panic"
    status,     \* the response's status code, 0 while nothing is written
    body,       \* what the response's body is
    file,       \* the handler's file: the name of the .go file asked for, or empty
    gpArgs      \* the arguments of the handler's getPackage calls, in order

vars == <<fs, mtime, now, pendingMu, pending, chans, pc, pkg, c, root, todo, cur, ret, runs, t0,
          statDirs, calls, upath, hpc, status, body, file, gpArgs>>

fsVars == <<fs, mtime>>
gateVars == <<pendingMu, pending, chans>>
httpVars == <<upath, hpc, status, body, file, gpArgs>>

\* getPackage is called directly, there is no request being handled.
NoRequest ==
    /\ upath = << >>
    /\ hpc = "none"
    /\ status = 0
    /\ body = ""
    /\ file = << >>
    /\ gpArgs = << >>

\* The directories from dir up to, and without, the source root.
BelowSrc(dir) == {d \in Prefixes(dir) : Len(d) > Len(goPathSrc)}

\* The directories from dir up to and including the source root.
UpToSrc(dir) == {d \in Prefixes(dir) : Len(d) >= Len(goPathSrc)}

\* ------------------------------------------------- isNewEnough (92-103)
\* fi.ModTime() of the marker file of dir; a directory outside the tree of
\* the model does not exist, and os.Stat of its marker fails.
MarkerTime(dir) == IF dir \in DOMAIN mtime THEN mtime[dir] ELSE NoFile

\* The age test with <= for <.
MarkerIsNewLE(dir) == MarkerTime(dir) # NoFile /\ now - MarkerTime(dir) <= newEnough

\* os.Stat(filepath.Join(dir, modtimeFile)) succeeds and the file is young.
MarkerIsNew(dir) == MarkerTime(dir) # NoFile /\ now - MarkerTime(dir) < newEnough

\* The loop with >= for >: the source root's own marker is looked at too.
RECURSIVE isNewEnoughLoopIncl(_, _)
isNewEnoughLoopIncl(dir, stats) ==
    IF PathLen(dir) >= PathLen(goPathSrc)
    THEN IF MarkerIsNew(dir)
         THEN [ret |-> TRUE, stats |-> stats \cup {dir}]
         ELSE IF dir = << >>
              THEN [ret |-> FALSE, stats |-> stats \cup {dir}]
              ELSE isNewEnoughLoopIncl(Parent(dir), stats \cup {dir})
    ELSE [ret |-> FALSE, stats |-> stats]

\* The loop of isNewEnough from dir on: the result, and the directories whose
\* marker file it has stat'ed.
RECURSIVE isNewEnoughLoop(_, _)
isNewEnoughLoop(dir, stats) ==
    IF PathLen(dir) > PathLen(goPathSrc)
    THEN IF MarkerIsNew(dir)
         THEN [ret |-> TRUE, stats |-> stats \cup {dir}]
         ELSE isNewEnoughLoop(Parent(dir), stats \cup {dir})
    ELSE [ret |-> FALSE, stats |-> stats]

isNewEnough(dir) == isNewEnoughLoop(dir, {}).ret

\* ----------------------------------------------------- touchFile (181-187)
\* os.Remove(name)
RemoveMarker(dir) == [mtime EXCEPT ![dir] = NoFile]
\* os.Create(name): succeeds when the directory exists
CreateMarker(dir) == IF dir \in fs THEN [mtime EXCEPT ![dir] = now] ELSE mtime

\* ------------------------------------------------- the root climb (140-162)
\* dirHas(vcsDir) for checkDir
dirHas(checkDir, vcsDir) == Append(checkDir, vcsDir) \in fs

\* The climb without the stop at the first directory that has no .svn.
RECURSIVE LocateLoopNoSvnStop(_, _, _)
LocateLoopNoSvnStop(checkDir, rootSoFar, svnSeen) ==
    IF dirHas(checkDir, ".hg") \/ dirHas(checkDir, ".git") \/ dirHas(checkDir, ".bzr")
    THEN [root |-> checkDir, err |-> "nil"]
    ELSE IF Parent(checkDir) = checkDir
         THEN [root |-> checkDir, err |-> "confused"]
         ELSE LocateLoopNoSvnStop(Parent(checkDir), checkDir,
                                  svnSeen \/ dirHas(checkDir, ".svn"))

\* The climb with root = checkDir placed after the test for modern metadata.
RECURSIVE LocateLoopRootLate(_, _, _)
LocateLoopRootLate(checkDir, rootSoFar, svnSeen) ==
    IF ~dirHas(checkDir, ".svn") /\ svnSeen
    THEN [root |-> rootSoFar, err |-> "nil"]
    ELSE IF dirHas(checkDir, ".hg") \/ dirHas(checkDir, ".git") \/ dirHas(checkDir, ".bzr")
         THEN [root |-> rootSoFar, err |-> "nil"]
         ELSE IF Parent(checkDir) = checkDir
              THEN [root |-> checkDir, err |-> "confused"]
              ELSE LocateLoopRootLate(Parent(checkDir), checkDir,
                                      svnSeen \/ dirHas(checkDir, ".svn"))

\* The climb with root = checkDir placed before the test for .svn.
RECURSIVE LocateLoopRootEarly(_, _, _)
LocateLoopRootEarly(checkDir, rootSoFar, svnSeen) ==
    IF ~dirHas(checkDir, ".svn") /\ svnSeen
    THEN [root |-> checkDir, err |-> "nil"]
    ELSE IF dirHas(checkDir, ".hg") \/ dirHas(checkDir, ".git") \/ dirHas(checkDir, ".bzr")
         THEN [root |-> checkDir, err |-> "nil"]
         ELSE IF Parent(checkDir) = checkDir
              THEN [root |-> checkDir, err |-> "confused"]
              ELSE LocateLoopRootEarly(Parent(checkDir), checkDir,
                                       svnSeen \/ dirHas(checkDir, ".svn"))

\* One iteration of the loop at checkDir, with the root and svnSeen so far.
RECURSIVE LocateLoop(_, _, _)
LocateLoop(checkDir, rootSoFar, svnSeen) ==
    IF ~dirHas(checkDir, ".svn") /\ svnSeen
    THEN [root |-> rootSoFar, err |-> "nil"]
    ELSE IF dirHas(checkDir, ".hg") \/ dirHas(checkDir, ".git") \/ dirHas(checkDir, ".bzr")
         THEN [root |-> checkDir, err |-> "nil"]
         ELSE IF Parent(checkDir) = checkDir
              THEN [root |-> checkDir, err |-> "confused"]
              ELSE LocateLoop(Parent(checkDir), checkDir,
                              svnSeen \/ dirHas(checkDir, ".svn"))

LocateRoot(pkgPath) == LocateLoop(pkgPath, pkgPath, FALSE)

\* ------------------------------------------------ filepath.Walk (165-176)
Children(dir) == {d \in fs : Len(d) = Len(dir) + 1 /\ Parent(d) = dir}

\* readDirNames: the sub-directories of dir, sorted by name
RECURSIVE SortedDirs(_)
SortedDirs(S) ==
    IF S = {} THEN << >>
    ELSE LET first == CHOOSE d \in S : \A e \in S : Rank(Base(d)) <= Rank(Base(e))
         IN <<first>> \o SortedDirs(S \ {first})

\* The switch without the case for .git.
SkipDirNoGit(path) == Base(path) \in {".svn", ".hg", ".bzr"}

\* The walk function's switch on filepath.Base(path)
SkipDir(path) == Base(path) \in {".svn", ".hg", ".git", ".bzr"}

\* ------------------------------------------------------------- getPackage
NoRet == [path |-> EmptyPath, err |-> "pending"]

\* The deferred func() { <-c }(): one value leaves the channel's buffer.
Release(ch) == [chans EXCEPT ![ch] = chans[ch] - 1]

\* return: the deferred receive runs, the thread is free for the next request.
Return(t, path, err) ==
    /\ chans' = Release(c[t])
    /\ pc' = [pc EXCEPT ![t] = "idle"]
    /\ ret' = [ret EXCEPT ![t] = [path |-> path, err |-> err]]
    /\ c' = [c EXCEPT ![t] = 0]
    /\ UNCHANGED <<pendingMu, pending>>

\* Call without the fast path: the fetch is made whatever isNewEnough says.
CallNoFastPath(t, k) ==
    /\ pc[t] = "idle"
    /\ calls < MaxCalls
    /\ calls' = calls + 1
    /\ pkg' = [pkg EXCEPT ![t] = k]
    /\ runs' = [runs EXCEPT ![t] = 0]
    /\ t0' = [t0 EXCEPT ![t] = NoFile]
    /\ c' = [c EXCEPT ![t] = 0]
    /\ root' = [root EXCEPT ![t] = << >>]
    /\ statDirs' = [statDirs EXCEPT ![t] = isNewEnoughLoop(pkgPathOf(k), {}).stats]
    /\ ret' = [ret EXCEPT ![t] = NoRet]
    /\ pc' = [pc EXCEPT ![t] = "lock"]
    /\ UNCHANGED <<fsVars, now, gateVars, todo, cur>>
    /\ UNCHANGED httpVars

\* Call making the key's channel before it looks at the marker.
CallGateFirst(t, k) ==
    /\ pc[t] = "idle"
    /\ calls < MaxCalls
    /\ calls' = calls + 1
    /\ pkg' = [pkg EXCEPT ![t] = k]
    /\ runs' = [runs EXCEPT ![t] = 0]
    /\ t0' = [t0 EXCEPT ![t] = NoFile]
    /\ c' = [c EXCEPT ![t] = 0]
    /\ root' = [root EXCEPT ![t] = << >>]
    /\ statDirs' = [statDirs EXCEPT ![t] = isNewEnoughLoop(pkgPathOf(k), {}).stats]
    /\ IF k \in DOMAIN pending
       THEN UNCHANGED <<pending, chans>>
       ELSE /\ chans' = Append(chans, 0)
            /\ pending' = [j \in DOMAIN pending \cup {k} |->
                              IF j = k THEN Len(chans) + 1 ELSE pending[j]]
    /\ IF isNewEnough(pkgPathOf(k))
       THEN /\ ret' = [ret EXCEPT ![t] = [path |-> pkgPathOf(k), err |-> "nil"]]
            /\ pc' = pc
       ELSE /\ ret' = [ret EXCEPT ![t] = NoRet]
            /\ pc' = [pc EXCEPT ![t] = "lock"]
    /\ UNCHANGED <<fsVars, now, pendingMu, todo, cur>>
    /\ UNCHANGED httpVars

\* 105-109: the call, the freshness check and the fast path.
getPackage(t, k) ==
    /\ pc[t] = "idle"
    /\ calls < MaxCalls
    /\ calls' = calls + 1
    /\ pkg' = [pkg EXCEPT ![t] = k]
    /\ runs' = [runs EXCEPT ![t] = 0]
    /\ t0' = [t0 EXCEPT ![t] = NoFile]
    /\ c' = [c EXCEPT ![t] = 0]
    /\ root' = [root EXCEPT ![t] = << >>]
    /\ statDirs' = [statDirs EXCEPT ![t] = isNewEnoughLoop(pkgPathOf(k), {}).stats]
    /\ IF isNewEnough(pkgPathOf(k))
       THEN /\ ret' = [ret EXCEPT ![t] = [path |-> pkgPathOf(k), err |-> "nil"]]
            /\ pc' = pc
       ELSE /\ ret' = [ret EXCEPT ![t] = NoRet]
            /\ pc' = [pc EXCEPT ![t] = "lock"]
    /\ UNCHANGED <<fsVars, now, gateVars, todo, cur>>

\* getPackage called directly, outside a request.
Call(t, k) == getPackage(t, k) /\ UNCHANGED httpVars

\* Lock with one channel for all the keys: pending[""] instead of pending[pkg].
LockSharedGate(t) ==
    /\ pc[t] = "lock"
    /\ pendingMu = 0
    /\ pendingMu' = t
    /\ IF chans # << >>
       THEN /\ c' = [c EXCEPT ![t] = 1]
            /\ UNCHANGED <<pending, chans>>
       ELSE /\ chans' = Append(chans, 0)
            /\ pending' = [k \in {pkg[t]} |-> 1]
            /\ c' = [c EXCEPT ![t] = 1]
    /\ pc' = [pc EXCEPT ![t] = "unlock"]
    /\ UNCHANGED <<fsVars, now, pkg, root, todo, cur, ret, runs, t0, statDirs, calls>>
    /\ UNCHANGED httpVars

\* 115-120: pendingMu.Lock() and the lookup, making the channel when absent.
Lock(t) ==
    /\ pc[t] = "lock"
    /\ pendingMu = 0
    /\ pendingMu' = t
    /\ IF pkg[t] \in DOMAIN pending
       THEN /\ c' = [c EXCEPT ![t] = pending[pkg[t]]]
            /\ UNCHANGED <<pending, chans>>
       ELSE /\ chans' = Append(chans, 0)
            /\ pending' = [k \in DOMAIN pending \cup {pkg[t]} |->
                              IF k = pkg[t] THEN Len(chans) + 1 ELSE pending[k]]
            /\ c' = [c EXCEPT ![t] = Len(chans) + 1]
    /\ pc' = [pc EXCEPT ![t] = "unlock"]
    /\ UNCHANGED <<fsVars, now, pkg, root, todo, cur, ret, runs, t0, statDirs, calls>>
    /\ UNCHANGED httpVars

\* Unlock put off: the mutex is still held when the thread goes on to send.
UnlockPutOff(t) ==
    /\ pc[t] = "unlock"
    /\ pc' = [pc EXCEPT ![t] = "send"]
    /\ UNCHANGED <<fsVars, now, gateVars, pkg, c, root, todo, cur, ret, runs, t0, statDirs, calls>>
    /\ UNCHANGED httpVars

\* 121: pendingMu.Unlock()
Unlock(t) ==
    /\ pc[t] = "unlock"
    /\ pendingMu' = 0
    /\ pc' = [pc EXCEPT ![t] = "send"]
    /\ UNCHANGED <<fsVars, now, pending, chans, pkg, c, root, todo, cur, ret, runs, t0, statDirs, calls>>
    /\ UNCHANGED httpVars

\* Send looking at the marker again once the slot is free: a package that
\* has become fresh is returned without a run of the command.
SendRecheck(t) ==
    /\ pc[t] = "send"
    /\ chans[c[t]] < 1
    /\ IF isNewEnough(pkgPathOf(pkg[t]))
       THEN /\ pc' = [pc EXCEPT ![t] = "idle"]
            /\ ret' = [ret EXCEPT ![t] = [path |-> pkgPathOf(pkg[t]), err |-> "nil"]]
            /\ c' = [c EXCEPT ![t] = 0]
            /\ UNCHANGED <<chans, runs>>
       ELSE /\ chans' = [chans EXCEPT ![c[t]] = chans[c[t]] + 1]
            /\ runs' = [runs EXCEPT ![t] = runs[t] + 1]
            /\ pc' = [pc EXCEPT ![t] = "running"]
            /\ UNCHANGED <<ret, c>>
    /\ UNCHANGED <<fsVars, now, pendingMu, pending, pkg, root, todo, cur, t0, statDirs, calls>>
    /\ UNCHANGED httpVars

\* Send without the wait for a free buffer slot.
SendNoBlock(t) ==
    /\ pc[t] = "send"
    /\ chans' = [chans EXCEPT ![c[t]] = chans[c[t]] + 1]
    /\ runs' = [runs EXCEPT ![t] = runs[t] + 1]
    /\ pc' = [pc EXCEPT ![t] = "running"]
    /\ UNCHANGED <<fsVars, now, pendingMu, pending, pkg, c, root, todo, cur, ret, t0, statDirs, calls>>
    /\ UNCHANGED httpVars

\* 122-128: c <- true blocks while the buffer is full; then the command starts.
Send(t) ==
    /\ pc[t] = "send"
    /\ chans[c[t]] < 1
    /\ chans' = [chans EXCEPT ![c[t]] = chans[c[t]] + 1]
    /\ runs' = [runs EXCEPT ![t] = runs[t] + 1]
    /\ pc' = [pc EXCEPT ![t] = "running"]
    /\ UNCHANGED <<fsVars, now, pendingMu, pending, pkg, c, root, todo, cur, ret, t0, statDirs, calls>>
    /\ UNCHANGED httpVars

\* CmdFail remembering the failure in a marker file of the source root.
CmdFailWritesMarker(t) ==
    /\ pc[t] = "running"
    /\ Return(t, EmptyPath, "go get")
    /\ mtime' = [mtime EXCEPT ![goPathSrc] = now]
    /\ UNCHANGED <<fs, now, pkg, root, todo, cur, runs, t0, statDirs, calls>>
    /\ UNCHANGED httpVars

\* CmdFail returning before the receive was deferred: the slot stays taken.
CmdFailNoRelease(t) ==
    /\ pc[t] = "running"
    /\ pc' = [pc EXCEPT ![t] = "idle"]
    /\ ret' = [ret EXCEPT ![t] = [path |-> EmptyPath, err |-> "go get"]]
    /\ c' = [c EXCEPT ![t] = 0]
    /\ UNCHANGED <<fsVars, now, gateVars, pkg, root, todo, cur, runs, t0, statDirs, calls>>
    /\ UNCHANGED httpVars

\* 128-134: the command ends with an error.
CmdFail(t) ==
    /\ pc[t] = "running"
    /\ Return(t, EmptyPath, "go get")
    /\ UNCHANGED <<fsVars, now, pkg, root, todo, cur, runs, t0, statDirs, calls>>
    /\ UNCHANGED httpVars

\* 128, 136: the command ends well, the checkout is on disk.
CmdOk(t) ==
    /\ pc[t] = "running"
    /\ fs' = fs \cup Checkout(pkg[t])
    /\ t0' = [t0 EXCEPT ![t] = now]
    /\ pc' = [pc EXCEPT ![t] = "locate"]
    /\ UNCHANGED <<mtime, now, gateVars, pkg, c, root, todo, cur, ret, runs, statDirs, calls>>
    /\ UNCHANGED httpVars

\* Locate leaving a marker in the package directory when the climb fails.
LocateConfusedStamps(t) ==
    /\ pc[t] = "locate"
    /\ LET r == LocateRoot(pkgPathOf(pkg[t]))
       IN IF r.err # "nil"
          THEN /\ Return(t, EmptyPath, r.err)
               /\ mtime' = [mtime EXCEPT ![pkgPathOf(pkg[t])] = now]
               /\ UNCHANGED <<root, todo>>
          ELSE /\ root' = [root EXCEPT ![t] = r.root]
               /\ todo' = [todo EXCEPT ![t] = <<r.root>>]
               /\ pc' = [pc EXCEPT ![t] = "walk"]
               /\ UNCHANGED <<gateVars, ret, c, mtime>>
    /\ UNCHANGED <<fs, now, pkg, cur, runs, t0, statDirs, calls>>
    /\ UNCHANGED httpVars

\* 140-164: the climb to the root; filepath.Walk starts at it.
Locate(t) ==
    /\ pc[t] = "locate"
    /\ LET r == LocateRoot(pkgPathOf(pkg[t]))
       IN IF r.err # "nil"
          THEN /\ Return(t, EmptyPath, r.err)
               /\ UNCHANGED <<root, todo>>
          ELSE /\ root' = [root EXCEPT ![t] = r.root]
               /\ todo' = [todo EXCEPT ![t] = <<r.root>>]
               /\ pc' = [pc EXCEPT ![t] = "walk"]
               /\ UNCHANGED <<gateVars, ret, c>>
    /\ UNCHANGED <<fsVars, now, pkg, cur, runs, t0, statDirs, calls>>
    /\ UNCHANGED httpVars

\* 165-173, 182: the walk reaches the next directory: it is skipped, or its
\* names are read and touchFile removes its marker.
WalkVisit(t) ==
    /\ pc[t] = "walk"
    /\ todo[t] # << >>
    /\ LET path == Head(todo[t])
       IN IF path \notin fs \/ SkipDir(path)
          THEN /\ todo' = [todo EXCEPT ![t] = Tail(todo[t])]
               /\ UNCHANGED <<mtime, cur, pc>>
          ELSE /\ todo' = [todo EXCEPT ![t] = SortedDirs(Children(path)) \o Tail(todo[t])]
               /\ mtime' = RemoveMarker(path)
               /\ cur' = [cur EXCEPT ![t] = path]
               /\ pc' = [pc EXCEPT ![t] = "create"]
    /\ UNCHANGED <<fs, now, gateVars, pkg, c, root, ret, runs, t0, statDirs, calls>>
    /\ UNCHANGED httpVars

\* 183-186: touchFile creates the marker anew.
TouchCreate(t) ==
    /\ pc[t] = "create"
    /\ mtime' = CreateMarker(cur[t])
    /\ cur' = [cur EXCEPT ![t] = << >>]
    /\ pc' = [pc EXCEPT ![t] = "walk"]
    /\ UNCHANGED <<fs, now, gateVars, pkg, c, root, todo, ret, runs, t0, statDirs, calls>>
    /\ UNCHANGED httpVars

\* WalkDone returning without the deferred receive: the slot stays taken.
WalkDoneNoRelease(t) ==
    /\ pc[t] = "walk"
    /\ todo[t] = << >>
    /\ pc' = [pc EXCEPT ![t] = "idle"]
    /\ ret' = [ret EXCEPT ![t] = [path |-> pkgPathOf(pkg[t]), err |-> "nil"]]
    /\ c' = [c EXCEPT ![t] = 0]
    /\ UNCHANGED <<fsVars, now, gateVars, pkg, root, todo, cur, runs, t0, statDirs, calls>>
    /\ UNCHANGED httpVars

\* 176-178: the walk is over, getPackage returns pkgPath.
WalkDone(t) ==
    /\ pc[t] = "walk"
    /\ todo[t] = << >>
    /\ Return(t, pkgPathOf(pkg[t]), "nil")
    /\ UNCHANGED <<fsVars, now, pkg, root, todo, cur, runs, t0, statDirs, calls>>
    /\ UNCHANGED httpVars

\* Time passes.
Tick ==
    /\ now < MaxTime
    /\ now' = now + 1
    /\ UNCHANGED <<fsVars, gateVars, pc, pkg, c, root, todo, cur, ret, runs, t0, statDirs, calls>>
    /\ UNCHANGED httpVars

\* ------------------------------------------------------- the server: Spec
Init ==
    /\ fs = BaseDirs
    /\ mtime = [d \in AllDirs |-> NoFile]
    /\ now = 0
    /\ pendingMu = 0
    /\ pending = << >>
    /\ chans = << >>
    /\ pc = [t \in Threads |-> "idle"]
    /\ pkg = [t \in Threads |-> KeyA]
    /\ c = [t \in Threads |-> 0]
    /\ root = [t \in Threads |-> << >>]
    /\ todo = [t \in Threads |-> << >>]
    /\ cur = [t \in Threads |-> << >>]
    /\ ret = [t \in Threads |-> NoRet]
    /\ runs = [t \in Threads |-> 0]
    /\ t0 = [t \in Threads |-> NoFile]
    /\ statDirs = [t \in Threads |-> {}]
    /\ calls = 0
    /\ NoRequest

\* The steps of getPackage after the call.
Fetch(t) ==
    \/ Lock(t)
    \/ Unlock(t)
    \/ Send(t)
    \/ CmdFail(t)
    \/ CmdOk(t)
    \/ Locate(t)
    \/ WalkVisit(t)
    \/ TouchCreate(t)
    \/ WalkDone(t)

Step(t) == (\E k \in Keys : Call(t, k)) \/ Fetch(t)

\* One request at a time.
SeqStep(t) == (\A u \in Threads \ {t} : pc[u] = "idle") /\ Step(t)

Next == (\E t \in Threads : Step(t)) \/ Tick

Spec == Init /\ [][Next]_vars

\* The server under a fair scheduler: a goroutine that can take a step of
\* getPackage takes one in the end, and every command ends.
FairSpec == Init /\ [][Next]_vars /\ \A t \in Threads : WF_vars(Fetch(t))

\* ------------------------------------------- requests one by one: SeqSpec
\* The source root may itself be the top of a git checkout.
SeqInit ==
    /\ fs \in {BaseDirs, BaseDirs \cup {Append(goPathSrc, ".git")}}
    /\ mtime = [d \in AllDirs |-> NoFile]
    /\ now = 0
    /\ pendingMu = 0
    /\ pending = << >>
    /\ chans = << >>
    /\ pc = [t \in Threads |-> "idle"]
    /\ pkg = [t \in Threads |-> KeyA]
    /\ c = [t \in Threads |-> 0]
    /\ root = [t \in Threads |-> << >>]
    /\ todo = [t \in Threads |-> << >>]
    /\ cur = [t \in Threads |-> << >>]
    /\ ret = [t \in Threads |-> NoRet]
    /\ runs = [t \in Threads |-> 0]
    /\ t0 = [t \in Threads |-> NoFile]
    /\ statDirs = [t \in Threads |-> {}]
    /\ calls = 0
    /\ NoRequest

SeqNext == (\E t \in Threads : SeqStep(t)) \/ Tick

SeqSpec == SeqInit /\ [][SeqNext]_vars

\* ------------------------------- the climb and the walk alone: LocateSpec
\* One call whose command has just ended well, over every layout of
\* version-control metadata along /gopath/src/a/b: each directory has .svn
\* or not, and at most one of .hg, .git and .bzr.
Chain == Prefixes(pkgPathOf(KeyAB))
LevelOptions == {S \in SUBSET VcsDirs : Cardinality(S \cap ModernVcs) <= 1}
\* A .git directory in /gopath/src/a has a directory of its own inside.
LayoutDirs(lay) ==
    Chain \cup UNION {{Append(d, v) : v \in lay[d]} : d \in Chain}
          \cup (IF ".git" \in lay[pkgPathOf(KeyA)] THEN {GitObjects} ELSE {})
Fetcher == CHOOSE t \in Threads : \A u \in Threads : t <= u

LocateInit ==
    /\ fs \in {LayoutDirs(lay) : lay \in [Chain -> LevelOptions]}
    /\ \E k \in {KeyA, KeyAB} :
          /\ pkg = [t \in Threads |-> k]
          /\ pending = [j \in {k} |-> 1]
          /\ statDirs = [t \in Threads |-> IF t = Fetcher THEN BelowSrc(pkgPathOf(k)) ELSE {}]
    /\ mtime = [d \in AllDirs |-> NoFile]
    /\ now = 0
    /\ pendingMu = 0
    /\ chans = <<1>>
    /\ pc = [t \in Threads |-> IF t = Fetcher THEN "locate" ELSE "idle"]
    /\ c = [t \in Threads |-> IF t = Fetcher THEN 1 ELSE 0]
    /\ root = [t \in Threads |-> << >>]
    /\ todo = [t \in Threads |-> << >>]
    /\ cur = [t \in Threads |-> << >>]
    /\ ret = [t \in Threads |-> NoRet]
    /\ runs = [t \in Threads |-> IF t = Fetcher THEN 1 ELSE 0]
    /\ t0 = [t \in Threads |-> IF t = Fetcher THEN 0 ELSE NoFile]
    /\ calls = 1
    /\ NoRequest

LocateNext ==
    \/ Locate(Fetcher)
    \/ WalkVisit(Fetcher)
    \/ TouchCreate(Fetcher)
    \/ WalkDone(Fetcher)

LocateSpec == LocateInit /\ [][LocateNext]_vars

\* ------------------------------------------------ the handler: ProxySpec
\* A URL path is the sequence of its characters.
PathChars == {"/", ".", "a", "b", "g", "o", "n"}
Favicon == <<"/", "f", "a", "v", "i", "c", "o", "n", ".", "i", "c", "o">>
Robots == <<"/", "r", "o", "b", "o", "t", "s", ".", "t", "x", "t">>
GoSuffix == <<".", "g", "o">>
LandingBody == "<html><body>go get proxy</body></html>"
InvalidPathBody == "invalid path\n"

\* out.w--; for out.w > dotdot && out.index(out.w) != '/' { out.w-- }
RECURSIVE CleanBackup(_, _, _)
CleanBackup(out, w, dotdot) ==
    IF w > dotdot /\ out[w + 1] # "/"
    THEN CleanBackup(out, w - 1, dotdot)
    ELSE SubSeq(out, 1, w)

\* The index after the path element that starts at r.
RECURSIVE ElementEnd(_, _)
ElementEnd(p, r) == IF r <= Len(p) /\ p[r] # "/" THEN ElementEnd(p, r + 1) ELSE r

\* The loop of path.Clean: r is the next character to read (from 1), out the
\* buffer written so far, dotdot the length out cannot be cut below.
RECURSIVE CleanLoop(_, _, _, _)
CleanLoop(p, r, out, dotdot) ==
    LET n == Len(p)
        rooted == p[1] = "/"
    IN IF r > n THEN out
       ELSE IF p[r] = "/" THEN CleanLoop(p, r + 1, out, dotdot)
       ELSE IF p[r] = "." /\ (r = n \/ p[r + 1] = "/") THEN CleanLoop(p, r + 1, out, dotdot)
       ELSE IF p[r] = "." /\ p[r + 1] = "." /\ (r + 1 = n \/ p[r + 2] = "/")
            THEN IF Len(out) > dotdot
                 THEN CleanLoop(p, r + 2, CleanBackup(out, Len(out) - 1, dotdot), dotdot)
                 ELSE IF ~rooted
                      THEN LET o2 == (IF Len(out) > 0 THEN Append(out, "/") ELSE out)
                                        \o <<".", ".">>
                           IN CleanLoop(p, r + 2, o2, Len(o2))
                      ELSE CleanLoop(p, r + 2, out, dotdot)
            ELSE LET o1 == IF (rooted /\ Len(out) # 1) \/ (~rooted /\ Len(out) # 0)
                           THEN Append(out, "/") ELSE out
                     e == ElementEnd(p, r)
                 IN CleanLoop(p, e, o1 \o SubSeq(p, r, e - 1), dotdot)

\* path.Clean
PathClean(p) ==
    IF p = << >> THEN <<".">>
    ELSE LET out == IF p[1] = "/" THEN CleanLoop(p, 2, <<"/">>, 1)
                    ELSE CleanLoop(p, 1, << >>, 0)
         IN IF out = << >> THEN <<".">> ELSE out

\* strings.LastIndex(s, "/") + 1: the place of the last slash, 0 without one
LastSlash(s) ==
    IF \E i \in 1 .. Len(s) : s[i] = "/"
    THEN CHOOSE i \in 1 .. Len(s) : s[i] = "/" /\ \A j \in i + 1 .. Len(s) : s[j] # "/"
    ELSE 0

\* path.Split
PathSplit(p) ==
    [dir |-> SubSeq(p, 1, LastSlash(p)), file |-> SubSeq(p, LastSlash(p) + 1, Len(p))]

\* strings.HasSuffix
HasSuffix(s, suffix) ==
    Len(s) >= Len(suffix) /\ SubSeq(s, Len(s) - Len(suffix) + 1, Len(s)) = suffix

\* The string of a sequence of characters.
RECURSIVE NameOf(_)
NameOf(chars) == IF chars = << >> THEN "" ELSE Head(chars) \o NameOf(Tail(chars))

\* The slash-separated elements of a string, each a sequence of characters.
RECURSIVE SplitSlash(_)
SplitSlash(p) ==
    IF LastSlash(p) = 0 THEN <<p>>
    ELSE Append(SplitSlash(SubSeq(p, 1, LastSlash(p) - 1)), SubSeq(p, LastSlash(p) + 1, Len(p)))

\* The package getPackage is called with, as the sequence of its names: the
\* key of pending, and what filepath.FromSlash(pkg) is joined from.
PkgKey(p) == [i \in 1 .. Len(SplitSlash(p)) |-> NameOf(SplitSlash(p)[i])]

\* The requests: every path of up to MaxPathLen characters, and some longer.
NamedPaths ==
    {Favicon, Robots,
     <<"/", "a", "/", "a", ".", "g", "o">>,
     <<"/", "a", "/", "b", "/", "a", ".", "g", "o">>,
     <<"/", "a", "/", ".", ".", "/", "a", ".", "g", "o">>}
Paths == UNION {[1 .. n -> PathChars] : n \in 0 .. MaxPathLen} \cup NamedPaths

\* All the state of getPackage and of the filesystem.
gpVars == <<fsVars, now, gateVars, pc, pkg, c, root, todo, cur, ret, runs, t0, statDirs, calls>>

\* 58: getPackage(p) called by the handler's goroutine.
CallGetPackage(p) ==
    /\ gpArgs' = Append(gpArgs, p)
    /\ hpc' = "called"
    /\ UNCHANGED <<status, body>>
    /\ getPackage(Fetcher, PkgKey(p))

\* The handler without the test of path.Clean.
ProxyNoCleanTest ==
    /\ hpc = "recv"
    /\ IF upath \in {Favicon, Robots}
       THEN /\ hpc' = "done"
            /\ status' = 200
            /\ UNCHANGED <<body, file, gpArgs, gpVars>>
       ELSE IF Len(upath) < 2
       THEN /\ hpc' = "done"
            /\ status' = 200
            /\ body' = LandingBody
            /\ UNCHANGED <<file, gpArgs, gpVars>>
       ELSE LET split == PathSplit(upath)
            IN IF HasSuffix(split.file, GoSuffix)
               THEN IF Len(split.dir) < 2
                    THEN /\ hpc' = "panic"
                         /\ UNCHANGED <<status, body, file, gpArgs, gpVars>>
                    ELSE /\ file' = split.file
                         /\ CallGetPackage(SubSeq(split.dir, 2, Len(split.dir) - 1))
               ELSE /\ file' = << >>
                    /\ CallGetPackage(SubSeq(upath, 2, Len(upath)))
    /\ UNCHANGED upath

\* 32-58: the handler up to its call of getPackage. A handler that returns
\* without writing answers 200 with an empty body; dir[1:len(dir)-1] panics
\* when dir has fewer than two characters, and nothing is answered.
Proxy ==
    /\ hpc = "recv"
    /\ IF upath \in {Favicon, Robots}
       THEN /\ hpc' = "done"
            /\ status' = 200
            /\ UNCHANGED <<body, file, gpArgs, gpVars>>
       ELSE IF Len(upath) < 2
       THEN /\ hpc' = "done"
            /\ status' = 200
            /\ body' = LandingBody
            /\ UNCHANGED <<file, gpArgs, gpVars>>
       ELSE IF PathClean(upath) # upath
       THEN /\ hpc' = "done"
            /\ status' = 500
            /\ body' = InvalidPathBody
            /\ UNCHANGED <<file, gpArgs, gpVars>>
       ELSE LET split == PathSplit(upath)
            IN IF HasSuffix(split.file, GoSuffix)
               THEN IF Len(split.dir) < 2
                    THEN /\ hpc' = "panic"
                         /\ UNCHANGED <<status, body, file, gpArgs, gpVars>>
                    ELSE /\ file' = split.file
                         /\ CallGetPackage(SubSeq(split.dir, 2, Len(split.dir) - 1))
               ELSE /\ file' = << >>
                    /\ CallGetPackage(SubSeq(upath, 2, Len(upath)))
    /\ UNCHANGED upath

\* 59-85: getPackage has returned: its error is answered with 500, else the
\* tar of the directory or the file is; os.Open of the file may fail.
Respond ==
    /\ hpc = "called"
    /\ pc[Fetcher] = "idle"
    /\ \E opened \in BOOLEAN :
          /\ IF ret[Fetcher].err # "nil"
             THEN status' = 500 /\ body' = "error"
             ELSE IF file = << >>
             THEN status' = 200 /\ body' = "tar"
             ELSE IF opened
             THEN status' = 200 /\ body' = "file"
             ELSE status' = 500 /\ body' = "open error"
    /\ hpc' = "done"
    /\ UNCHANGED <<upath, file, gpArgs, gpVars>>

ProxyInit ==
    /\ fs = BaseDirs
    /\ mtime = [d \in AllDirs |-> NoFile]
    /\ now = 0
    /\ pendingMu = 0
    /\ pending = << >>
    /\ chans = << >>
    /\ pc = [t \in Threads |-> "idle"]
    /\ pkg = [t \in Threads |-> KeyA]
    /\ c = [t \in Threads |-> 0]
    /\ root = [t \in Threads |-> << >>]
    /\ todo = [t \in Threads |-> << >>]
    /\ cur = [t \in Threads |-> << >>]
    /\ ret = [t \in Threads |-> NoRet]
    /\ runs = [t \in Threads |-> 0]
    /\ t0 = [t \in Threads |-> NoFile]
    /\ statDirs = [t \in Threads |-> {}]
    /\ calls = 0
    /\ upath \in Paths
    /\ hpc = "recv"
    /\ status = 0
    /\ body = ""
    /\ file = << >>
    /\ gpArgs = << >>

ProxyNext ==
    \/ Proxy
    \/ Fetch(Fetcher)
    \/ Respond

ProxySpec == ProxyInit /\ [][ProxyNext]_vars

\* ------------------------------------------------------------ the claims
\* The thread has put its value into the channel and has not yet returned.
Holding(t) == pc[t] \in {"running", "locate", "walk", "create"}

\* C1: never two external retrieval commands at once for one package key, and
\* a command runs only while its thread occupies the slot of the key's channel.
C1_OneRetrievalPerKey ==
    /\ \A t, u \in Threads :
          (t # u /\ pc[t] = "running" /\ pc[u] = "running") => pkg[t] # pkg[u]
    /\ \A t \in Threads :
          pc[t] = "running" =>
             /\ pkg[t] \in DOMAIN pending
             /\ c[t] = pending[pkg[t]]
             /\ chans[c[t]] = 1

\* Two calls for one key: one runs the command, the other waits at the channel.
C1_Witness ==
    \E t, u \in Threads :
       /\ t # u
       /\ pkg[t] = pkg[u]
       /\ pc[t] = "running"
       /\ pc[u] = "send"
       /\ c[u] = c[t]

\* C2: a call is never held up by calls for another key: a thread waiting at
\* its channel can send unless a call for the same key occupies the slot, and
\* a thread waiting for pendingMu waits for a holder that can unlock at once.
C2_NoCrossKeyBlocking ==
    /\ \A t \in Threads :
          (pc[t] = "send" /\ ~\E u \in Threads : u # t /\ pkg[u] = pkg[t] /\ Holding(u))
             => ENABLED Send(t)
    /\ \A t \in Threads :
          pc[t] = "lock" => (ENABLED Lock(t) \/ (pendingMu # 0 /\ ENABLED Unlock(pendingMu)))

\* A retrieval for one key is in flight, a retrieval for another key has started.
C2_Witness ==
    \E t, u \in Threads :
       /\ pkg[t] # pkg[u]
       /\ pc[t] = "running"
       /\ pc[u] = "running"

\* C3: a channel's slot is taken exactly while a call for its key is between
\* the send and the return, whatever way the call returns.
C3_GateReleasedOnReturn ==
    /\ \A ch \in 1 .. Len(chans) :
          chans[ch] = Cardinality({t \in Threads : Holding(t) /\ c[t] = ch})
    /\ \A k \in DOMAIN pending :
          chans[pending[k]] >= 1 => \E t \in Threads : pkg[t] = k /\ Holding(t)
    /\ \A t \in Threads : pc[t] = "idle" => c[t] = 0

\* After a failed fetch of a key, a later call for that key occupies the slot.
C3_Witness ==
    \E t, u \in Threads :
       /\ pc[t] = "idle"
       /\ ret[t].err = "go get"
       /\ pkg[u] = pkg[t]
       /\ Holding(u)
       /\ chans[pending[pkg[t]]] = 1

\* The command of the thread's last call ended well.
LastCmdOk(t) == pc[t] = "idle" /\ t0[t] # NoFile

\* The thread's last call fetched: the command ended well, the root was found,
\* the walk was made and the call returned pkgPath without an error.
LastFetchOk(t) == LastCmdOk(t) /\ ret[t].err = "nil"

\* The call returned the cached directory and ran no command.
ReusedCache(t, k) ==
    /\ pc'[t] = "idle"
    /\ ret'[t] = [path |-> pkgPathOf(k), err |-> "nil"]
    /\ runs'[t] = 0

\* C4 as stated: for any key, when the first request's retrieval succeeds, a
\* second request for the key right after the first has returned, within the
\* freshness window, reuses the directory and runs no command.
C4_AnyKeySecondRequestCached ==
    [][\A u, t \in Threads : \A k \in Keys :
          (LastCmdOk(u) /\ pkg[u] = k /\ now - t0[u] < newEnough /\ Call(t, k))
             => ReusedCache(t, k)]_vars

\* C4 amended: a first request that getPackage answers without an error has
\* run the command exactly once, and when the package directory exists after
\* it, a second request for the key right after it, within the freshness
\* window and with no other request in flight, reuses the directory and runs
\* no command.
C4_SecondRequestCached ==
    /\ [](\A t \in Threads : (LastFetchOk(t) => runs[t] = 1) /\ runs[t] <= 1)
    /\ [][\A u, t \in Threads : \A k \in Keys :
             (/\ LastFetchOk(u)
              /\ pkg[u] = k
              /\ pkgPathOf(k) \in fs
              /\ now - t0[u] < newEnough
              /\ Call(t, k))
                => ReusedCache(t, k)]_vars

\* One thread fetched a key, the next request for the key took the fast path.
C4_Witness ==
    \E u, t \in Threads :
       /\ u # t
       /\ LastFetchOk(u)
       /\ runs[u] = 1
       /\ pkg[t] = pkg[u]
       /\ pc[t] = "idle"
       /\ ret[t] = [path |-> pkgPathOf(pkg[u]), err |-> "nil"]
       /\ runs[t] = 0
       /\ t0[t] = NoFile
       /\ now - t0[u] < newEnough

\* The package directories at or under dir that are not inside (and are not)
\* a version-control metadata directory below it.
KeysUnder(dir) ==
    {k \in Keys : /\ dir \in Prefixes(pkgPathOf(k))
                  /\ \A i \in Len(dir) + 1 .. Len(pkgPathOf(k)) : pkgPathOf(k)[i] \notin VcsDirs}

\* C5: after a successful fetch with root R, within the freshness window of
\* its stamps, isNewEnough reports every package directory at or under R fresh.
C5_StampCoversCheckout ==
    \A t \in Threads :
       (LastFetchOk(t) /\ now - t0[t] < newEnough) =>
          \A k \in KeysUnder(root[t]) : isNewEnough(pkgPathOf(k))

\* C6: when isNewEnough reports fresh, the call returns pkgPath and nil at once
\* and touches neither the mutex, the map, a channel nor the filesystem.
C6_FastPathChangesNothing ==
    [][\A t \in Threads : \A k \in Keys :
          (Call(t, k) /\ isNewEnough(pkgPathOf(k))) =>
             /\ pc'[t] = "idle"
             /\ ret'[t] = [path |-> pkgPathOf(k), err |-> "nil"]
             /\ runs'[t] = 0
             /\ UNCHANGED <<fs, mtime, pendingMu, pending, chans>>]_vars

\* A call has returned on the fast path.
C6_Witness ==
    \E t \in Threads :
       /\ pc[t] = "idle"
       /\ ret[t] = [path |-> pkgPathOf(pkg[t]), err |-> "nil"]
       /\ runs[t] = 0
       /\ t0[t] = NoFile
       /\ statDirs[t] # {}

\* C7: a failed command makes the call return an error with an empty path and
\* write no marker; nothing remembers the failure: every call that finds its
\* key not fresh goes on to the gate, and returns only after running the command.
C7_FailureNotCached ==
    /\ [][\A t \in Threads : CmdFail(t) =>
             /\ ret'[t] = [path |-> EmptyPath, err |-> "go get"]
             /\ UNCHANGED <<fs, mtime>>]_vars
    /\ [](\A t \in Threads : ret[t].err = "go get" => t0[t] = NoFile)
    /\ [][\A t \in Threads : \A k \in Keys :
             (Call(t, k) /\ ~isNewEnough(pkgPathOf(k))) => pc'[t] = "lock"]_vars
    /\ [][\A t \in Threads : (pc[t] \notin {"idle"} /\ pc'[t] = "idle") => runs'[t] = 1]_vars

\* A fetch of a key failed and left no marker; a later call for the key runs
\* the command again.
C7_Witness ==
    \E t, u \in Threads :
       /\ pc[t] = "idle"
       /\ ret[t] = [path |-> EmptyPath, err |-> "go get"]
       /\ pkg[u] = pkg[t]
       /\ pc[u] = "running"
       /\ runs[u] = 1
       /\ \A d \in AllDirs : mtime[d] = NoFile

\* C8 as stated: right after touchFile has stamped a directory, isNewEnough is
\* true of every package directory at or under it, whichever ancestor it is;
\* and isNewEnough is false once every stamp on the way up is a minute old.
C8_FreshAfterAnyStamp ==
    /\ [][\A t \in Threads : TouchCreate(t) =>
             \A k \in Keys : cur[t] \in Prefixes(pkgPathOf(k)) => isNewEnough(pkgPathOf(k))']_vars
    /\ [](\A k \in Keys :
             (\A d \in Prefixes(pkgPathOf(k)) : mtime[d] = NoFile \/ now - mtime[d] >= newEnough)
                => ~isNewEnough(pkgPathOf(k)))

\* C8 amended: the same for the stamps in the directory itself and in its
\* ancestors below the source root; stamps in the source root or above it
\* count for nothing.
C8_FreshAfterStampBelowSrc ==
    /\ [][\A t \in Threads : (TouchCreate(t) /\ PathLen(cur[t]) > PathLen(goPathSrc)) =>
             \A k \in Keys : cur[t] \in Prefixes(pkgPathOf(k)) => isNewEnough(pkgPathOf(k))']_vars
    /\ [](\A k \in Keys :
             (\A d \in BelowSrc(pkgPathOf(k)) : mtime[d] = NoFile \/ now - mtime[d] >= newEnough)
                => ~isNewEnough(pkgPathOf(k)))

\* touchFile has just stamped /gopath/src/a anew; the marker of a/b is a
\* minute old, and a/b is fresh by the stamp of its parent.
C8_Witness ==
    \E t \in Threads :
       /\ pc[t] = "walk"
       /\ todo[t] # << >>
       /\ Head(todo[t]) = pkgPathOf(KeyA) \o <<".git">>
       /\ mtime[pkgPathOf(KeyA)] = now
       /\ mtime[pkgPathOf(KeyAB)] # NoFile
       /\ now - mtime[pkgPathOf(KeyAB)] >= newEnough
       /\ isNewEnough(pkgPathOf(KeyAB))

\* C9 as stated: the walk looks at no directory but those from the package
\* directory up to and including the source root, and a fresh marker in the
\* source root itself makes the result fresh.
C9_SourceRootMarkerCounts ==
    [][\A t \in Threads : \A k \in Keys : Call(t, k) =>
          /\ statDirs'[t] \subseteq UpToSrc(pkgPathOf(k))
          /\ MarkerIsNew(goPathSrc) => ReusedCache(t, k)]_vars

\* C9 amended: the walk looks at the directories from the package directory
\* up to but without the source root, stopping at the first fresh marker: all
\* of them when the result is not fresh; the source root and what is above it
\* are never looked at, so a fresh marker there does not make the result fresh.
C9_WalkStopsBelowSourceRoot ==
    [][\A t \in Threads : \A k \in Keys : Call(t, k) =>
          /\ statDirs'[t] \subseteq BelowSrc(pkgPathOf(k))
          /\ pc'[t] = "lock" =>
                /\ statDirs'[t] = BelowSrc(pkgPathOf(k))
                /\ \A d \in statDirs'[t] : ~MarkerIsNew(d)
          /\ pc'[t] = "idle" =>
                \E d \in statDirs'[t] :
                   /\ MarkerIsNew(d)
                   /\ statDirs'[t] = {e \in BelowSrc(pkgPathOf(k)) : Len(e) >= Len(d)}
                   /\ \A e \in statDirs'[t] \ {d} : ~MarkerIsNew(e)]_vars

\* The source root holds a fresh marker, and a call has found its package not
\* fresh after looking at the package directory alone.
C9_Witness ==
    \E t \in Threads :
       /\ pc[t] = "lock"
       /\ MarkerIsNew(goPathSrc)
       /\ statDirs[t] = {pkgPathOf(pkg[t])}

\* The i-th directory above dir.
Up(dir, i) == SubSeq(dir, 1, Len(dir) - i)

HasModern(dir) == \E v \in ModernVcs : dirHas(dir, v)

\* On the way up from start: nothing in the first j directories, .svn and no
\* modern metadata in the next two, modern metadata in the one above them.
LegacyTwiceThenModern(start, j) ==
    /\ Len(start) >= j + 2
    /\ \A i \in 0 .. j - 1 : ~dirHas(Up(start, i), ".svn") /\ ~HasModern(Up(start, i))
    /\ \A i \in {j, j + 1} : dirHas(Up(start, i), ".svn") /\ ~HasModern(Up(start, i))
    /\ HasModern(Up(start, j + 2))

\* The climb of the thread's call is over and has found a root.
Located(t) == pc[t] \in {"walk", "create"} \/ LastFetchOk(t)

\* C10 as stated: with .svn at two levels in a row and modern metadata at the
\* level above them, the located root is the directory with the modern metadata.
C10_ClimbsToModernRoot ==
    \A t \in Threads : \A j \in 0 .. Len(pkgPathOf(pkg[t])) :
       (Located(t) /\ LegacyTwiceThenModern(pkgPathOf(pkg[t]), j))
          => root[t] = Up(pkgPathOf(pkg[t]), j + 2)

\* C10 amended: the located root is the upper of the two .svn levels, the last
\* directory with .svn; the directory with the modern metadata is the root
\* only when it holds .svn metadata as well.
C10_StopsAtLastLegacyLevel ==
    \A t \in Threads : \A j \in 0 .. Len(pkgPathOf(pkg[t])) :
       (Located(t) /\ LegacyTwiceThenModern(pkgPathOf(pkg[t]), j))
          => root[t] = IF dirHas(Up(pkgPathOf(pkg[t]), j + 2), ".svn")
                       THEN Up(pkgPathOf(pkg[t]), j + 2)
                       ELSE Up(pkgPathOf(pkg[t]), j + 1)

\* .svn in /gopath/src/a/b and in /gopath/src/a, .git alone in /gopath/src:
\* the root is /gopath/src/a.
C10_Witness ==
    \E t \in Threads :
       /\ pc[t] = "walk"
       /\ pkg[t] = KeyAB
       /\ LegacyTwiceThenModern(pkgPathOf(KeyAB), 0)
       /\ dirHas(goPathSrc, ".git")
       /\ ~dirHas(goPathSrc, ".svn")
       /\ root[t] = pkgPathOf(KeyA)

\* On the way up from start: no .svn in the first j + 1 directories, no modern
\* metadata in the first j, modern metadata in the next: start lies j levels
\* below the top of a modern checkout.
InModernCheckout(start, j) ==
    /\ Len(start) >= j
    /\ \A i \in 0 .. j : ~dirHas(Up(start, i), ".svn")
    /\ \A i \in 0 .. j - 1 : ~HasModern(Up(start, i))
    /\ HasModern(Up(start, j))

\* C11: from a start directory inside one modern checkout, with no .svn on the
\* way up, the located root is the top of the checkout: the first directory
\* on the way up that holds .git, .hg or .bzr, none below it, none above it.
C11_RootIsCheckoutTop ==
    \A t \in Threads : \A j \in 0 .. Len(pkgPathOf(pkg[t])) :
       (Located(t) /\ InModernCheckout(pkgPathOf(pkg[t]), j))
          => /\ root[t] = Up(pkgPathOf(pkg[t]), j)
             /\ HasModern(root[t])

\* /gopath/src/a/b lies three levels below /gopath, which holds .git; the
\* located root is /gopath.
C11_Witness ==
    \E t \in Threads :
       /\ Located(t)
       /\ pkg[t] = KeyAB
       /\ InModernCheckout(pkgPathOf(KeyAB), 3)
       /\ root[t] = <<"gopath">>

\* The directory is a version-control metadata directory or lies inside one.
InMetadata(d) == \E i \in 1 .. Len(d) : d[i] \in VcsDirs

\* The directory lies inside a version-control metadata directory.
InsideMetadata(d) == \E i \in 1 .. Len(d) - 1 : d[i] \in VcsDirs

\* C12: the walk writes no marker in a directory named .svn, .hg, .git or
\* .bzr nor in a directory inside one, and reads no such directory's names;
\* when it is over, every other directory at or under the root has a marker,
\* and no directory outside the root has one.
C12_StampSkipsMetadata ==
    /\ \A d \in AllDirs : InMetadata(d) => mtime[d] = NoFile
    /\ \A t \in Threads :
          /\ ~InMetadata(cur[t])
          /\ \A i \in 1 .. Len(todo[t]) : ~InsideMetadata(todo[t][i])
    /\ \A t \in Threads : LastFetchOk(t) =>
          \A d \in fs :
             IF root[t] \in Prefixes(d) /\ ~InMetadata(d)
             THEN mtime[d] # NoFile
             ELSE mtime[d] = NoFile

\* The walk from /gopath/src/a is over: a and a/b have a marker, a/.git,
\* a/.git/objects and a/b/.svn have none.
C12_Witness ==
    \E t \in Threads :
       /\ LastFetchOk(t)
       /\ root[t] = pkgPathOf(KeyA)
       /\ {GitObjects, Append(pkgPathOf(KeyAB), ".svn")} \subseteq fs
       /\ mtime[pkgPathOf(KeyA)] # NoFile
       /\ mtime[pkgPathOf(KeyAB)] # NoFile
       /\ mtime[Append(pkgPathOf(KeyA), ".git")] = NoFile
       /\ mtime[GitObjects] = NoFile
       /\ mtime[Append(pkgPathOf(KeyAB), ".svn")] = NoFile

\* The request was answered 500 "invalid path" and getPackage was not reached:
\* no call, no channel made or taken, no command run.
RejectedInvalid ==
    /\ hpc = "done"
    /\ status = 500
    /\ body = InvalidPathBody
    /\ gpArgs = << >>
    /\ calls = 0
    /\ pending = << >>
    /\ chans = << >>
    /\ \A t \in Threads : pc[t] = "idle" /\ runs[t] = 0

\* C13 as stated: every request whose path path.Clean would change is
\* answered 500 "invalid path" and does not reach getPackage.
C13_AnyNonCanonicalRejected ==
    (hpc # "recv" /\ PathClean(upath) # upath) => RejectedInvalid

\* C13 amended: so is every such request whose path has two characters or
\* more; the empty path, which path.Clean changes to ".", is answered by the
\* test for short paths that comes first, with 200 and the landing page.
C13_NonCanonicalRejected ==
    /\ (hpc # "recv" /\ PathClean(upath) # upath /\ Len(upath) >= 2) => RejectedInvalid
    /\ (hpc # "recv" /\ PathClean(upath) # upath /\ Len(upath) < 2) =>
          /\ upath = << >>
          /\ hpc = "done"
          /\ status = 200
          /\ body = LandingBody
          /\ gpArgs = << >>

\* "/a//b", whose clean form names a package of the tree, was answered 500.
C13_Witness ==
    /\ upath = <<"/", "a", "/", "/", "b">>
    /\ RejectedInvalid

\* C14: a call that has found its key not fresh runs the command once before
\* it returns, whatever the markers say by the time it has the slot: the send
\* waits for the slot alone and is followed by the command; and the fetches
\* of the calls for one key, from send to return, never overlap.
C14_NoRecheckAfterGate ==
    /\ [][\A t \in Threads : (pc[t] # "idle" /\ pc'[t] = "idle") => runs'[t] = 1]_vars
    /\ [][\A t \in Threads : (pc[t] = "send" /\ pc'[t] # "send") =>
             (pc'[t] = "running" /\ runs'[t] = 1)]_vars
    /\ [](\A t \in Threads : (pc[t] = "send" /\ chans[c[t]] = 0) => ENABLED Send(t))
    /\ [](\A t, u \in Threads :
             (t # u /\ pkg[t] = pkg[u]) => ~(Holding(t) /\ Holding(u)))

\* Two calls for one key both found it not fresh; the first has fetched and
\* stamped, the key is fresh now, and the second runs the command all the same.
C14_Witness ==
    \E t, u \in Threads :
       /\ t # u
       /\ pkg[t] = pkg[u]
       /\ LastFetchOk(u)
       /\ statDirs[u] = BelowSrc(pkgPathOf(pkg[u]))
       /\ statDirs[t] = BelowSrc(pkgPathOf(pkg[t]))
       /\ isNewEnough(pkgPathOf(pkg[t]))
       /\ pc[t] = "running"
       /\ runs[t] = 1

\* On the way up from start: neither .svn nor modern metadata in the first i0
\* directories, .svn and no modern metadata in the directories i0 .. i - 1,
\* no .svn in directory i: the climb comes to directory i with svnSeen set.
LegacyRunEnds(start, i0, i) ==
    /\ i0 < i
    /\ i <= Len(start)
    /\ \A m \in 0 .. i0 - 1 : ~dirHas(Up(start, m), ".svn") /\ ~HasModern(Up(start, m))
    /\ \A m \in i0 .. i - 1 : dirHas(Up(start, m), ".svn") /\ ~HasModern(Up(start, m))
    /\ ~dirHas(Up(start, i), ".svn")

\* C15: when the climb, having seen .svn, comes to a directory without .svn,
\* it stops there with the root one directory below, the last one with .svn,
\* whether or not the directory it stopped at has modern metadata.
C15_LegacyBoundaryIsPrevious ==
    \A t \in Threads : \A i0, i \in 0 .. Len(pkgPathOf(pkg[t])) :
       (t0[t] # NoFile /\ pc[t] # "locate" /\ LegacyRunEnds(pkgPathOf(pkg[t]), i0, i))
          => /\ Located(t)
             /\ root[t] = Up(pkgPathOf(pkg[t]), i - 1)

\* .svn in /gopath/src/a/b alone, .git in /gopath/src/a: the root is a/b.
C15_Witness ==
    \E t \in Threads :
       /\ pc[t] = "walk"
       /\ pkg[t] = KeyAB
       /\ LegacyRunEnds(pkgPathOf(KeyAB), 0, 1)
       /\ dirHas(pkgPathOf(KeyA), ".git")
       /\ root[t] = pkgPathOf(KeyAB)

\* The thread's last call returned the error of a climb that reached "/".
LastConfused(t) == pc[t] = "idle" /\ ret[t] = [path |-> EmptyPath, err |-> "confused"]

\* C16: a climb that reaches "/" without a boundary makes getPackage return
\* an error and an empty path though the command ended well; the call walks
\* nothing and writes no marker, and the next call for the key finds it not
\* fresh and goes to the gate to run the command again.
C16_ConfusedRootNotCached ==
    /\ [][\A t \in Threads :
             (Locate(t) /\ LocateRoot(pkgPathOf(pkg[t])).err = "confused") =>
                /\ \A d \in Prefixes(pkgPathOf(pkg[t])) : ~HasModern(d)
                /\ t0[t] # NoFile
                /\ runs[t] = 1
                /\ LastConfused(t)'
                /\ UNCHANGED <<fs, mtime>>]_vars
    /\ [](\A t \in Threads : LastConfused(t) => (root[t] = << >> /\ todo[t] = << >>))
    /\ [][\A u, t \in Threads : \A k \in Keys :
             (LastConfused(u) /\ pkg[u] = k /\ Call(t, k)) => pc'[t] = "lock"]_vars

\* A call for a key returned the error of the climb after a command that ended
\* well; another call for the key runs the command, and no marker exists.
C16_Witness ==
    \E u, t \in Threads :
       /\ LastConfused(u)
       /\ t0[u] # NoFile
       /\ pkg[t] = pkg[u]
       /\ pc[t] = "running"
       /\ runs[t] = 1
       /\ \A d \in AllDirs : mtime[d] = NoFile

\* C17: pendingMu is held only between the lookup and the unlock that follows
\* it, never by a thread that waits at a channel, runs the command, climbs or
\* walks; a key's channel, once made, stays the key's channel: the map only
\* grows, no two keys share a channel, and every call past the lookup has
\* the channel of its key.
C17_LockOnlyAroundLookup ==
    /\ [](pendingMu # 0 => (pendingMu \in Threads /\ pc[pendingMu] = "unlock"))
    /\ [](\A t \in Threads : pc[t] \in {"idle", "lock", "send", "running", "locate", "walk", "create"}
                                 => pendingMu # t)
    /\ [](/\ Len(chans) = Cardinality(DOMAIN pending)
          /\ \A k \in DOMAIN pending : pending[k] \in 1 .. Len(chans)
          /\ \A k, j \in DOMAIN pending : pending[k] = pending[j] => k = j)
    /\ [][\A k \in DOMAIN pending : k \in DOMAIN pending' /\ pending'[k] = pending[k]]_vars
    /\ [](\A t \in Threads : pc[t] \in {"unlock", "send", "running", "locate", "walk", "create"}
                                 => (pkg[t] \in DOMAIN pending /\ c[t] = pending[pkg[t]]))

\* One call runs the command for a key; a second call for the key holds
\* pendingMu and has just looked up the same channel, the only one made.
C17_Witness ==
    \E t, u \in Threads :
       /\ t # u
       /\ pkg[t] = pkg[u]
       /\ pc[u] = "running"
       /\ pc[t] = "unlock"
       /\ pendingMu = t
       /\ c[t] = c[u]
       /\ Len(chans) = 1

\* The directories the thread's fetch is writing in: what the running command
\* checks out or updates, and then the directories the walk stamps.
Mutated(t) ==
    IF pc[t] = "running" THEN Checkout(pkg[t])
    ELSE IF pc[t] \in {"walk", "create"}
    THEN {d \in AllDirs : root[t] \in Prefixes(d) /\ ~InMetadata(d)}
    ELSE {}

\* C18: the fetches in flight for two different keys never write in the same
\* directory at the same time.
C18_OneFetchPerDirectory ==
    \A t, u \in Threads :
       (t # u /\ pkg[t] # pkg[u]) => Mutated(t) \cap Mutated(u) = {}

\* C19: under fair scheduling, with commands that end, every call returns:
\* a thread inside getPackage, waiting for pendingMu or for the slot of its
\* channel or fetching, is idle again in the end.
C19_EveryCallReturns ==
    \A t \in Threads : (pc[t] # "idle") ~> (pc[t] = "idle")

\* Two calls for one key have both gone through the channel, one after the
\* other, and both have returned.
C19_Witness ==
    \E t, u \in Threads :
       /\ t # u
       /\ pkg[t] = pkg[u]
       /\ pc[t] = "idle" /\ ret[t].err # "pending" /\ runs[t] = 1
       /\ pc[u] = "idle" /\ ret[u].err # "pending" /\ runs[u] = 1
       /\ chans[pending[pkg[t]]] = 0

\* The package key the request is said to stand for: the directory part of
\* the path without its first and last slash when the last element ends in
\* .go, else the path without its first slash.
SaidKey(p) ==
    LET split == PathSplit(p)
    IN IF HasSuffix(split.file, GoSuffix)
       THEN SubSeq(split.dir, 2, Len(split.dir) - 1)
       ELSE SubSeq(p, 2, Len(p))

\* C20: every request whose path begins with a slash, is in canonical form,
\* has two characters or more and is neither /favicon.ico nor /robots.txt
\* makes exactly one call of getPackage, with a package key that is not empty
\* and is the said key: a .go file right under the root included.
C20_OneCallPerCanonicalRequest ==
    (/\ hpc # "recv"
     /\ Len(upath) >= 2
     /\ upath[1] = "/"
     /\ PathClean(upath) = upath
     /\ upath \notin {Favicon, Robots})
       => /\ hpc \in {"called", "done"}
          /\ Len(gpArgs) = 1
          /\ gpArgs[1] # << >>
          /\ gpArgs[1] = SaidKey(upath)

====
